---- MODULE Spec2Model ----
(***************************************************************************)
(* TODO Creeper: the scan / aggregate / reconcile pipeline of index.js.    *)
(*                                                                         *)
(* A JavaScript string is modelled as a sequence of one-character strings, *)
(* so that includes(), trim(), split(), substring(), extname() and the     *)
(* regular expressions are computed and not assumed.                       *)
(*                                                                         *)
(* Two copies of the action live in the repository and differ in run()'s   *)
(* issue gate and in createIssueForTodo(): src/index.js ("src") and the    *)
(* later copy with comment stripping ("strip").  The variable 'variant'    *)
(* says which copy a run executes; everything else is common to both.      *)
(***************************************************************************)
EXTENDS Integers, Sequences, FiniteSets, TLC

\* ------------------------------------------------------------------ bounds
\* at most this many collaborator requests go wrong in one behaviour: a fetch
\* of the snapshot that fails, a search or a create that fails, a search
\* that misses some of its hits
MaxFaults == 1
\* runs of the action against the same snapshot (SpecRerun)
MaxRuns == 2

\* ------------------------------------------------------- string primitives
\* String.prototype.toLowerCase on the letters that occur
LowerOf == ("A" :> "a") @@ ("B" :> "b") @@ ("C" :> "c") @@ ("D" :> "d") @@ ("E" :> "e") @@ ("F" :> "f") @@ ("G" :> "g") @@ ("H" :> "h") @@ ("I" :> "i") @@ ("J" :> "j") @@ ("K" :> "k") @@ ("L" :> "l") @@ ("M" :> "m") @@ ("N" :> "n") @@ ("O" :> "o") @@ ("P" :> "p") @@ ("Q" :> "q") @@ ("R" :> "r") @@ ("S" :> "s") @@ ("T" :> "t") @@ ("U" :> "u") @@ ("V" :> "v") @@ ("W" :> "w") @@ ("X" :> "x") @@ ("Y" :> "y") @@ ("Z" :> "z")

LowerChar(c) == IF c \in DOMAIN LowerOf THEN LowerOf[c] ELSE c

toLowerCase(s) == [i \in 1..Len(s) |-> LowerChar(s[i])]

\* the characters the regular expression class \s and trim() treat as blank
IsSpace(c) == c \in {" ", "\t", "\n", "\r", "\f"}

\* s has p at position i
StartsWithAt(s, i, p) ==
    /\ i >= 1
    /\ i + Len(p) - 1 <= Len(s)
    /\ \A k \in 1..Len(p) : s[i + k - 1] = p[k]

\* the same, ignoring case (the /i flag)
StartsWithAtCI(s, i, p) ==
    /\ i >= 1
    /\ i + Len(p) - 1 <= Len(s)
    /\ \A k \in 1..Len(p) : LowerChar(s[i + k - 1]) = LowerChar(p[k])

\* String.prototype.includes
includes(s, p) == \E i \in 1..(Len(s) - Len(p) + 1) : StartsWithAt(s, i, p)

\* String.prototype.substring(0, n)
substring0(s, n) == SubSeq(s, 1, IF n < Len(s) THEN n ELSE Len(s))

\* the text from position i to the end
From(s, i) == SubSeq(s, i, Len(s))

\* the sequences f[lo] .. f[hi] joined, by halves
RECURSIVE FlattenRange(_, _, _)
FlattenRange(f, lo, hi) ==
    IF lo > hi THEN <<>>
    ELSE IF lo = hi THEN f[lo]
    ELSE FlattenRange(f, lo, (lo + hi) \div 2) \o FlattenRange(f, ((lo + hi) \div 2) + 1, hi)

\* a sequence of sequences joined into one
Flatten(f) == FlattenRange(f, 1, Len(f))

Min(S) == CHOOSE x \in S : \A y \in S : x <= y

Max(S) == CHOOSE x \in S : \A y \in S : y <= x

\* position of the first non-blank character at or after i (Len(s)+1 if none)
SkipSpaces(s, i) == Min({j \in i..(Len(s) + 1) : j > Len(s) \/ ~IsSpace(s[j])})

\* position of the last non-blank character at or before i (0 if none)
SkipSpacesBack(s, i) == Max({j \in 0..i : j = 0 \/ ~IsSpace(s[j])})

\* String.prototype.trim
trim(s) == SubSeq(s, SkipSpaces(s, 1), SkipSpacesBack(s, Len(s)))

\* String.prototype.split(sep) for a one-character separator: one piece ends
\* at every separator and one at the end of the text
split(s, sep) ==
    LET seps == {i \in 1..Len(s) : s[i] = sep}
        before(i) == Max({0} \cup {q \in seps : q < i})
    IN Flatten([i \in 1..(Len(s) + 1) |->
                   IF i > Len(s) \/ s[i] = sep
                   THEN <<SubSeq(s, before(i) + 1, i - 1)>>
                   ELSE <<>>])

\* Number.prototype.toString of a non-negative integer
Digits == <<"0", "1", "2", "3", "4", "5", "6", "7", "8", "9">>

RECURSIVE toString(_)
toString(n) ==
    IF n < 10 THEN <<Digits[n + 1]>> ELSE toString(n \div 10) \o <<Digits[(n % 10) + 1]>>

IsDigit(c) == \E d \in 1..10 : Digits[d] = c

DigitValue(c) == (CHOOSE d \in 1..10 : Digits[d] = c) - 1

\* the value of the longest run of decimal digits of s starting at i
RECURSIVE DigitRun(_, _, _)
DigitRun(s, i, acc) ==
    IF i <= Len(s) /\ IsDigit(s[i]) THEN DigitRun(s, i + 1, acc * 10 + DigitValue(s[i])) ELSE acc

\* parseInt(s): leading blanks are skipped, an optional sign, then the longest
\* run of digits; NaN (nan = TRUE) when there is no digit
parseInt(s) ==
    LET i == SkipSpaces(s, 1)
        neg == i <= Len(s) /\ s[i] = "-"
        j == IF i <= Len(s) /\ s[i] \in {"-", "+"} THEN i + 1 ELSE i
    IN IF j <= Len(s) /\ IsDigit(s[j])
       THEN [nan |-> FALSE, value |-> IF neg THEN 0 - DigitRun(s, j, 0) ELSE DigitRun(s, j, 0)]
       ELSE [nan |-> TRUE, value |-> 0]

\* path.extname(name): from the last "." of the name, "" when there is none or
\* when the only "." is the first character
extname(name) ==
    LET dots == {i \in 1..Len(name) : name[i] = "."}
        last == IF dots = {} THEN 0 ELSE Max(dots)
    IN IF last <= 1 THEN <<>> ELSE From(name, last)

\* ---------------------------------------------------------- Pattern Matcher
\* the comment openers and keywords of the twelve regular expressions
TODO == <<"T","O","D","O">>
FIXME == <<"F","I","X","M","E">>
HACK == <<"H","A","C","K">>

\* todoPatterns, in the order of the array literal; 'source' is RegExp.source
todoPatterns ==
    << [opener |-> <<"/","/">>, keyword |-> TODO, source |-> <<"\\","/","\\","/","\\","s","*","T","O","D","O">>],
       [opener |-> <<"/","*">>, keyword |-> TODO, source |-> <<"\\","/","\\","*","\\","s","*","T","O","D","O">>],
       [opener |-> <<"#">>, keyword |-> TODO, source |-> <<"#","\\","s","*","T","O","D","O">>],
       [opener |-> <<"<","!","-","-">>, keyword |-> TODO, source |-> <<"<","!","-","-","\\","s","*","T","O","D","O">>],
       [opener |-> <<"/","/">>, keyword |-> FIXME, source |-> <<"\\","/","\\","/","\\","s","*","F","I","X","M","E">>],
       [opener |-> <<"/","*">>, keyword |-> FIXME, source |-> <<"\\","/","\\","*","\\","s","*","F","I","X","M","E">>],
       [opener |-> <<"#">>, keyword |-> FIXME, source |-> <<"#","\\","s","*","F","I","X","M","E">>],
       [opener |-> <<"<","!","-","-">>, keyword |-> FIXME, source |-> <<"<","!","-","-","\\","s","*","F","I","X","M","E">>],
       [opener |-> <<"/","/">>, keyword |-> HACK, source |-> <<"\\","/","\\","/","\\","s","*","H","A","C","K">>],
       [opener |-> <<"/","*">>, keyword |-> HACK, source |-> <<"\\","/","\\","*","\\","s","*","H","A","C","K">>],
       [opener |-> <<"#">>, keyword |-> HACK, source |-> <<"#","\\","s","*","H","A","C","K">>],
       [opener |-> <<"<","!","-","-">>, keyword |-> HACK, source |-> <<"<","!","-","-","\\","s","*","H","A","C","K">>] >>

\* pattern.test(line) for /opener\s*keyword/i: somewhere in the line the
\* opener, then any number of blanks, then the keyword in any case
patternTest(pattern, line) ==
    \E i \in 1..Len(line) :
        /\ StartsWithAt(line, i, pattern.opener)
        /\ \E j \in (i + Len(pattern.opener))..SkipSpaces(line, i + Len(pattern.opener)) :
               StartsWithAtCI(line, j, pattern.keyword)

\* pattern.source.includes('TODO') ? 'TODO' : pattern.source.includes('FIXME') ? 'FIXME' : 'HACK'
typeOfPattern(pattern) ==
    IF includes(pattern.source, TODO) THEN TODO
    ELSE IF includes(pattern.source, FIXME) THEN FIXME
    ELSE HACK

\* the indexes of the patterns that match the line
matchingPatterns(line) == {k \in 1..Len(todoPatterns) : patternTest(todoPatterns[k], line)}

\* the body of lines.forEach without the break: a finding for every pattern
\* that matches the line
scanLineNoBreak(filePath, lineNumber, line) ==
    Flatten([k \in 1..Len(todoPatterns) |->
                IF patternTest(todoPatterns[k], line)
                THEN << [file |-> filePath,
                         line |-> lineNumber,
                         content |-> trim(line),
                         type |-> typeOfPattern(todoPatterns[k])] >>
                ELSE <<>>])

\* the body of lines.forEach: the findings of one line (none or one): the for
\* loop pushes for the first pattern that matches and breaks
scanLine(filePath, lineNumber, line) ==
    LET hits == matchingPatterns(line)
    IN IF hits = {} THEN <<>>
       ELSE LET first == Min(hits)
            IN << [file |-> filePath,
                   line |-> lineNumber,
                   content |-> trim(line),
                   type |-> typeOfPattern(todoPatterns[first])] >>

\* lines.forEach((line, index) => ...) with lineNumber = index + 1
scanLines(filePath, lines) ==
    Flatten([k \in 1..Len(lines) |-> scanLine(filePath, k, lines[k])])

\* ------------------------------------------------------------- File Scanner
codeExtensions ==
    { <<".","j","s">>, <<".","j","s","x">>, <<".","t","s">>, <<".","t","s","x">>, <<".","p","y">>, <<".","j","a","v","a">>, <<".","c","p","p">>, <<".","c">>,
      <<".","c","s">>, <<".","p","h","p">>, <<".","r","b">>, <<".","g","o">>, <<".","r","s">>, <<".","s","w","i","f","t">>, <<".","k","t">>,
      <<".","s","c","a","l","a">>, <<".","c","l","j">>, <<".","h","s">>, <<".","m","l">>, <<".","f","s">>, <<".","v","b">>, <<".","s","q","l">>,
      <<".","s","h">>, <<".","b","a","s","h">>, <<".","z","s","h">>, <<".","f","i","s","h">>, <<".","p","s","1">>, <<".","b","a","t">>, <<".","c","m","d">>,
      <<".","y","m","l">>, <<".","y","a","m","l">>, <<".","j","s","o","n">>, <<".","x","m","l">>, <<".","h","t","m","l">>, <<".","c","s","s">>, <<".","s","c","s","s">>,
      <<".","s","a","s","s">>, <<".","l","e","s","s">>, <<".","v","u","e">>, <<".","s","v","e","l","t","e">>, <<".","m","d">>, <<".","t","x","t">> }

\* the extension gate letting every file with an extension through
extensionPresent(file) == extname(file.name) # <<>>

\* the extension gate of scanFileForTodos: true when the file is fetched
extensionAllowed(file) == toLowerCase(extname(file.name)) \in codeExtensions

\* the findings of a fetched file: fileContent is the response of getContent,
\* [type, content] with the content already decoded from base64 (an empty
\* file has empty base64 text, which is falsy)
fileTodos(file, fileContent) ==
    IF fileContent.type = "file" /\ fileContent.content # <<>>
    THEN scanLines(file.path, split(fileContent.content, "\n"))
    ELSE <<>>

\* -------------------------------------------------- the repository snapshot
\* one entry of a directory listing, as repos.getContent returns it: the name,
\* the path from the repository root and the type
Entry(dirPath, name, type) ==
    [name |-> name,
     path |-> IF dirPath = <<>> THEN name ELSE dirPath \o <<"/">> \o name,
     type |-> type]

RootPath == <<>>
SrcPath == <<"s","r","c">>
LibPath == <<"s","r","c","/","l","i","b">>
ModulesPath == <<"n","o","d","e","_","m","o","d","u","l","e","s">>

\* the tree at context.sha: every directory with its listing, in listing order
Listings ==
    << [path |-> RootPath,
        entries |-> << Entry(RootPath, <<"s","r","c">>, "dir"),
                       Entry(RootPath, <<"n","o","d","e","_","m","o","d","u","l","e","s">>, "dir"),
                       Entry(RootPath, <<"R","E","A","D","M","E">>, "file"),
                       Entry(RootPath, <<"x",".","J","S">>, "file") >>],
       [path |-> SrcPath,
        entries |-> << Entry(SrcPath, <<"a",".","j","s">>, "file"),
                       Entry(SrcPath, <<"l","i","b">>, "dir"),
                       Entry(SrcPath, <<"l","o","g","o",".","p","n","g">>, "file") >>],
       [path |-> LibPath,
        entries |-> << Entry(LibPath, <<"c",".","m","d">>, "file") >>],
       [path |-> ModulesPath,
        entries |-> << Entry(ModulesPath, <<"b",".","j","s">>, "file") >>] >>

\* the text of every file at context.sha
Files ==
    << [path |-> <<"R","E","A","D","M","E">>,
        content |-> <<"#"," ","T","O","D","O",":"," ","w","r","i","t","e"," ","t","h","e"," ","d","o","c","s","\n">>],
       [path |-> <<"x",".","J","S">>,
        content |-> <<"/","/"," ","f","i","x","m","e",":"," ","a"," ","/","*"," ","H","A","C","K"," ","*","/">>],
       [path |-> <<"s","r","c","/","a",".","j","s">>,
        content |-> <<"l","e","t"," ","x"," ","="," ","1",";","\n","\n"," "," ","/","/"," ","T","O","D","O",":"," ","f","i","x","\n","#"," ","H","A","C","K"," ","/","/"," ","T","O","D","O"," ","b","\n">>],
       [path |-> <<"s","r","c","/","l","o","g","o",".","p","n","g">>,
        content |-> <<"#"," ","T","O","D","O"," ","n","o","t"," ","t","e","x","t">>],
       [path |-> <<"s","r","c","/","l","i","b","/","c",".","m","d">>,
        content |-> <<"<","!","-","-"," ","T","O","D","O"," ","d","o","c","u","m","e","n","t"," ","t","h","e"," ","w","a","l","k","e","r"," ","a","n","d"," ","t","h","e"," ","r","e","c","o","n","c","i","l","e","r"," ","i","n"," ","d","e","t","a","i","l"," ","-","-",">","\n","/","*"," ","F","I","X","M","E",":"," ","t","h","e"," ","t","i","t","l","e"," ","o","f"," ","t","h","i","s"," ","i","t","e","m"," ","i","s"," ","c","u","t"," ","a","t"," ","f","i","f","t","y"," ","c","h","a","r","s"," ","*","/">>],
       [path |-> <<"n","o","d","e","_","m","o","d","u","l","e","s","/","b",".","j","s">>,
        content |-> <<"/","/"," ","T","O","D","O",":"," ","i","g","n","o","r","e","d","\n","/","/"," ","T","O","D","O",":"," ","i","g","n","o","r","e","d">>] >>

Range(seq) == {seq[i] : i \in 1..Len(seq)}

DirPaths == {l.path : l \in Range(Listings)}

FilePaths == {f.path : f \in Range(Files)}

\* the response of repos.getContent for a directory path
listDirectory(path) == (CHOOSE l \in Range(Listings) : l.path = path).entries

\* the response of repos.getContent for a file path
getFileContent(path) ==
    [type |-> "file", content |-> (CHOOSE f \in Range(Files) : f.path = path).content]

\* --------------------------------------------------------------- the inputs
\* values of the 'threshold' input ("" when the workflow gives none)
ThresholdInputs == { <<>>, <<"0">>, <<"5">> }

\* values of the 'exclude-patterns' input
ExcludeInputs ==
    { <<"n","o","d","e","_","m","o","d","u","l","e","s",",","d","i","s","t",",","b","u","i","l","d",",",".","g","i","t">>, <<>>, <<" ","s","r","c","/","l"," ",",",","," ",".","j","s">> }

\* value of the 'issue-labels' input ("" when the workflow gives none)
IssueLabelsInput == <<>>

\* github.context of the triggering event; 0 and "" stand for undefined
Contexts ==
    { [eventName |-> "pull_request", hasPullRequest |-> TRUE, pullRequestNumber |-> 7,
       pullRequestLogin |-> "alice", payloadNumber |-> 7, issueNumber |-> 0,
       senderLogin |-> "bob", sha |-> <<"0","a","1","b","2","c","3","d","4","e","5","f">>, ref |-> <<"r","e","f","s","/","p","u","l","l","/","7","/","m","e","r","g","e">>],
      [eventName |-> "push", hasPullRequest |-> FALSE, pullRequestNumber |-> 0,
       pullRequestLogin |-> "", payloadNumber |-> 0, issueNumber |-> 0,
       senderLogin |-> "bob", sha |-> <<"0","a","1","b","2","c","3","d","4","e","5","f">>, ref |-> <<"r","e","f","s","/","h","e","a","d","s","/","m","a","i","n">>],
      [eventName |-> "issue_comment", hasPullRequest |-> FALSE, pullRequestNumber |-> 0,
       pullRequestLogin |-> "", payloadNumber |-> 0, issueNumber |-> 5,
       senderLogin |-> "carol", sha |-> <<"0","a","1","b","2","c","3","d","4","e","5","f">>, ref |-> <<"r","e","f","s","/","h","e","a","d","s","/","m","a","i","n">>] }

\* the issues of the tracker before the first run
InitialIssues ==
    << [number |-> 1, title |-> <<"F","i","x"," ","t","h","e"," ","p","a","r","s","e","r">>, body |-> <<"/","/"," ","T","O","D","O",":"," ","f","i","x">>,
        labels |-> <<>>, assignees |-> <<>>],
       [number |-> 2, title |-> <<"/","/"," ","F","I","X","M","E",":"," ","a"," ","/","*"," ","h","a","c","k"," ","*","/">>, body |-> <<>>,
        labels |-> <<>>, assignees |-> <<>>],
       [number |-> 3, title |-> <<"H","a","c","k"," ","i","n"," ","x">>, body |-> <<"#"," ","h","a","c","k"," ","/","/"," ","t","o","d","o"," ","b">>,
        labels |-> <<>>, assignees |-> <<>>] >>

\* ------------------------------------------------------------------- state
VARIABLES
    variant,        \* which copy of the action runs: "src" or "strip"
    inputs,         \* the workflow's inputs, as core.getInput returns them
    context,        \* github.context
    failing,        \* the paths of the snapshot whose getContent request fails
    issues,         \* the issue tracker: the issues, oldest first
    pc,             \* where run() is
    threshold,      \* run: const threshold
    excludePatterns, \* run: const excludePatterns
    createIssues,   \* run: const createIssues
    labels,         \* processTodosForIssues: const labels
    stack,          \* the activations of scanForTodos, innermost last
    todos,          \* run: const todos
    outputs,        \* core.setOutput: name -> value
    failedMsg,      \* core.setFailed: the message, "" while not called
    warnings,       \* core.warning calls, in order
    pending,        \* the collaborator request run() is suspended on, if any
    requests,       \* every collaborator request issued, in order
    cursor,         \* processTodosForIssues: index of the todo of the for loop
    created,        \* processTodosForIssues: let created
    linked,         \* processTodosForIssues: let linked
    faults,         \* the requests that have gone wrong or are bound to
    runs,           \* the number of the current run
    prevTodos,      \* history: the todos of the previous run
    replies,        \* history: the answer to every search (or its failure), in order
    fate            \* history: what became of each todo of the for loop

vars == <<variant, inputs, context, failing, issues, pc, threshold, excludePatterns,
          createIssues, labels, stack, todos, outputs, failedMsg, warnings, pending,
          requests, cursor, created, linked, faults, runs, prevTodos, replies, fate>>

\* the variables that belong to the world and not to one run
world == <<variant, inputs, context, failing>>

\* the history of the reconciler
history == <<replies, fate>>

NoRequest == [kind |-> "none"]

\* 'threshold' when the workflow gives none
DefaultThreshold == 10

\* const threshold = parseInt(core.getInput('threshold')) || 10
thresholdOf(input) ==
    LET n == parseInt(input)
    IN IF n.nan \/ n.value = 0 THEN DefaultThreshold ELSE n.value

\* Array.prototype.map(s => s.trim())
trimAll(seq) == [i \in 1..Len(seq) |-> trim(seq[i])]

\* Array.prototype.filter(pattern => pattern.length > 0)
nonEmptyOnly(seq) ==
    Flatten([k \in 1..Len(seq) |-> IF Len(seq[k]) > 0 THEN <<seq[k]>> ELSE <<>>])

\* const excludePatterns = input.split(',').map(trim).filter(length > 0)
excludePatternsOf(input) == nonEmptyOnly(trimAll(split(input, ",")))

\* issueLabels = core.getInput('issue-labels') || 'todo,enhancement', then
\* issueLabels.split(',').map(label => label.trim())
labelsOf(input) ==
    trimAll(split(IF input = <<>> THEN <<"t","o","d","o",",","e","n","h","a","n","c","e","m","e","n","t">> ELSE input, ","))

\* the exclusion test as a prefix test: 'itemPath.startsWith(pattern)'
isExcludedByPrefix(patterns, itemPath) ==
    \E k \in 1..Len(patterns) : StartsWithAt(itemPath, 1, patterns[k])

\* excludePatterns.some(pattern => itemPath.includes(pattern))
isExcluded(patterns, itemPath) == \E k \in 1..Len(patterns) : includes(itemPath, patterns[k])

\* const itemPath = currentPath ? '${currentPath}/${item.name}' : item.name
itemPathOf(currentPath, item) ==
    IF currentPath # <<>> THEN currentPath \o <<"/">> \o item.name ELSE item.name

\* a new activation of scanForTodos(contents, ..., currentPath): const todos = []
newFrame(contents, currentPath) ==
    [contents |-> contents, index |-> 0, currentPath |-> currentPath, todos |-> <<>>]

Top == stack[Len(stack)]

\* the same, but pushing only the findings whose text no issue of the tracker
\* holds yet
advanceUntracked(found) ==
    [stack EXCEPT ![Len(stack)] =
        [@ EXCEPT !.index = @ + 1,
                  !.todos = @ \o Flatten([k \in 1..Len(found) |->
                                IF \E i \in 1..Len(issues) : includes(issues[i].body, found[k].content)
                                THEN <<>> ELSE <<found[k]>>])]]

\* the top activation moves to the next item of its for loop, after pushing
\* 'found' onto its todos
advance(found) ==
    [stack EXCEPT ![Len(stack)] =
        [@ EXCEPT !.index = @ + 1, !.todos = @ \o found]]

\* the paths whose getContent request may fail: the root, a directory with
\* a directory below it, and a file of each of the two
FailablePaths == {RootPath, SrcPath, <<"s","r","c","/","a",".","j","s">>, <<"s","r","c","/","l","i","b","/","c",".","m","d">>}

FailingSets == {s \in SUBSET FailablePaths : Cardinality(s) <= MaxFaults}

Init ==
    /\ variant \in {"src", "strip"}
    /\ inputs \in [token : BOOLEAN,
                   threshold : ThresholdInputs,
                   excludePatterns : ExcludeInputs,
                   createIssues : {"true", "false"},
                   issueLabels : {IssueLabelsInput}]
    /\ context \in Contexts
    /\ failing \in FailingSets
    /\ issues = InitialIssues
    /\ pc = "start"
    /\ threshold = 0
    /\ excludePatterns = <<>>
    /\ createIssues = FALSE
    /\ labels = <<>>
    /\ stack = <<>>
    /\ todos = <<>>
    /\ outputs = <<>>
    /\ failedMsg = ""
    /\ warnings = <<>>
    /\ pending = NoRequest
    /\ requests = <<>>
    /\ cursor = 0
    /\ created = 0
    /\ linked = 0
    /\ faults = Cardinality(failing)
    /\ runs = 1
    /\ prevTodos = <<>>
    /\ replies = <<>>
    /\ fate = <<>>

\* issue a collaborator request and suspend on it; the log keeps the request
\* without the body text of a create
await(request, at) ==
    /\ pending' = request
    /\ requests' = Append(requests, [f \in (DOMAIN request) \ {"body"} |-> request[f]])
    /\ pc' = at

\* run(), from its first line to the first await: the inputs are read
\* (core.getInput throws when the required token is missing, and the catch
\* reports it) and the root listing is requested
RunStart ==
    /\ pc = "start"
    /\ IF inputs.token
       THEN /\ threshold' = thresholdOf(inputs.threshold)
            /\ excludePatterns' = excludePatternsOf(inputs.excludePatterns)
            /\ createIssues' = (inputs.createIssues = "true")
            /\ await([kind |-> "list", path |-> RootPath], "await_root")
            /\ UNCHANGED failedMsg
       ELSE /\ failedMsg' = "Action failed"
            /\ pc' = "done"
            /\ UNCHANGED <<threshold, excludePatterns, createIssues, pending, requests>>
    /\ UNCHANGED <<world, issues, labels, stack, todos, outputs, warnings, cursor,
                   created, linked, faults, runs, prevTodos, history>>

\* the root listing arrives: scanForTodos(contents, ...) is entered
RootListed ==
    /\ pc = "await_root"
    /\ pending.path \notin failing
    /\ stack' = <<newFrame(listDirectory(pending.path), <<>>)>>
    /\ pending' = NoRequest
    /\ pc' = "scan"
    /\ UNCHANGED <<world, issues, threshold, excludePatterns, createIssues, labels, todos,
                   outputs, failedMsg, warnings, requests, cursor, created, linked,
                   faults, runs, prevTodos, history>>

\* the root listing fails: the rejection reaches the catch of run()
RootFailed ==
    /\ pc = "await_root"
    /\ pending.path \in failing
    /\ failedMsg' = "Action failed"
    /\ pending' = NoRequest
    /\ pc' = "done"
    /\ UNCHANGED <<world, issues, threshold, excludePatterns, createIssues, labels, stack,
                   todos, outputs, warnings, requests, cursor, created, linked, faults,
                   runs, prevTodos, history>>

\* scanForTodos: one turn of 'for (const item of contents)', up to its await
\* (or to the end of the turn when nothing is fetched)
ScanItem ==
    /\ pc = "scan"
    /\ Top.index < Len(Top.contents)
    /\ LET item == Top.contents[Top.index + 1]
           itemPath == itemPathOf(Top.currentPath, item)
       IN IF isExcluded(excludePatterns, itemPath)
          THEN /\ stack' = advance(<<>>)
               /\ UNCHANGED <<pc, pending, requests>>
          ELSE IF item.type = "dir"
          THEN /\ await([kind |-> "list", path |-> itemPath], "await_dir")
               /\ UNCHANGED stack
          ELSE IF item.type = "file" /\ extensionAllowed(item)
          THEN /\ await([kind |-> "content", path |-> item.path], "await_file")
               /\ UNCHANGED stack
          ELSE /\ stack' = advance(<<>>)
               /\ UNCHANGED <<pc, pending, requests>>
    /\ UNCHANGED <<world, issues, threshold, excludePatterns, createIssues, labels, todos,
                   outputs, failedMsg, warnings, cursor, created, linked, faults, runs, prevTodos, history>>

\* a directory listing arrives: the recursive call is entered
DirListed ==
    /\ pc = "await_dir"
    /\ pending.path \notin failing
    /\ stack' = Append(stack, newFrame(listDirectory(pending.path), pending.path))
    /\ pending' = NoRequest
    /\ pc' = "scan"
    /\ UNCHANGED <<world, issues, threshold, excludePatterns, createIssues, labels, todos,
                   outputs, failedMsg, warnings, requests, cursor, created, linked,
                   faults, runs, prevTodos, history>>

\* a directory listing fails: core.warning, and the loop goes on
DirFailed ==
    /\ pc = "await_dir"
    /\ pending.path \in failing
    /\ warnings' = Append(warnings, [what |-> "Failed to scan directory", path |-> pending.path])
    /\ stack' = advance(<<>>)
    /\ pending' = NoRequest
    /\ pc' = "scan"
    /\ UNCHANGED <<world, issues, threshold, excludePatterns, createIssues, labels, todos,
                   outputs, failedMsg, requests, cursor, created, linked, faults, runs, prevTodos, history>>

\* the content of a file arrives: its lines are scanned and the findings are
\* pushed onto the todos of the activation
FileFetched ==
    /\ pc = "await_file"
    /\ pending.path \notin failing
    /\ LET item == Top.contents[Top.index + 1]
       IN stack' = advance(fileTodos(item, getFileContent(pending.path)))
    /\ pending' = NoRequest
    /\ pc' = "scan"
    /\ UNCHANGED <<world, issues, threshold, excludePatterns, createIssues, labels, todos,
                   outputs, failedMsg, warnings, requests, cursor, created, linked,
                   faults, runs, prevTodos, history>>

\* the content fetch fails and the failure ends the for loop of the
\* directory: the catch around the loop instead of inside scanFileForTodos
FileFailedAbortsDirectory ==
    /\ pc = "await_file"
    /\ pending.path \in failing
    /\ warnings' = Append(warnings, [what |-> "Failed to scan file", path |-> pending.path])
    /\ stack' = [stack EXCEPT ![Len(stack)] = [@ EXCEPT !.index = Len(Top.contents)]]
    /\ pending' = NoRequest
    /\ pc' = "scan"
    /\ UNCHANGED <<world, issues, threshold, excludePatterns, createIssues, labels, todos,
                   outputs, failedMsg, requests, cursor, created, linked, faults, runs, prevTodos, history>>

\* the content fetch fails: core.warning, and the file has no findings
FileFailed ==
    /\ pc = "await_file"
    /\ pending.path \in failing
    /\ warnings' = Append(warnings, [what |-> "Failed to scan file", path |-> pending.path])
    /\ stack' = advance(<<>>)
    /\ pending' = NoRequest
    /\ pc' = "scan"
    /\ UNCHANGED <<world, issues, threshold, excludePatterns, createIssues, labels, todos,
                   outputs, failedMsg, requests, cursor, created, linked, faults, runs, prevTodos, history>>

\* scanForTodos returns its todos and the caller puts them before its own:
\* 'todos.unshift(...subTodos)'
ScanReturnSubtreeFirst ==
    /\ pc = "scan"
    /\ Top.index >= Len(Top.contents)
    /\ IF Len(stack) > 1
       THEN /\ stack' = [SubSeq(stack, 1, Len(stack) - 1) EXCEPT ![Len(stack) - 1] =
                            [@ EXCEPT !.index = @ + 1, !.todos = Top.todos \o @]]
            /\ UNCHANGED <<todos, pc>>
       ELSE /\ todos' = Top.todos
            /\ stack' = <<>>
            /\ pc' = "aggregate"
    /\ UNCHANGED <<world, issues, threshold, excludePatterns, createIssues, labels, outputs,
                   failedMsg, warnings, pending, requests, cursor, created, linked,
                   faults, runs, prevTodos, history>>

\* scanForTodos returns its todos: to the caller's todos.push(...subTodos), or
\* to run() when the activation is the outermost one
ScanReturn ==
    /\ pc = "scan"
    /\ Top.index >= Len(Top.contents)
    /\ IF Len(stack) > 1
       THEN /\ stack' = [SubSeq(stack, 1, Len(stack) - 1) EXCEPT ![Len(stack) - 1] =
                            [@ EXCEPT !.index = @ + 1, !.todos = @ \o Top.todos]]
            /\ UNCHANGED <<todos, pc>>
       ELSE /\ todos' = Top.todos
            /\ stack' = <<>>
            /\ pc' = "aggregate"
    /\ UNCHANGED <<world, issues, threshold, excludePatterns, createIssues, labels, outputs,
                   failedMsg, warnings, pending, requests, cursor, created, linked,
                   faults, runs, prevTodos, history>>

\* --------------------------------------------------------------- Aggregator
\* JSON.stringify of a string: the quotes, with " and \ and the tab escaped
jsonEscape(s) ==
    Flatten([i \in 1..Len(s) |->
                IF s[i] \in {"\"", "\\"} THEN <<"\\", s[i]>>
                ELSE IF s[i] = "\t" THEN <<"\\", "t">>
                ELSE <<s[i]>>])

jsonString(s) == <<"\"">> \o jsonEscape(s) \o <<"\"">>

\* JSON.stringify of one todo: the keys in the order of the object literal
jsonTodo(todo) ==
    <<"{","\"","f","i","l","e","\"",":">> \o jsonString(todo.file) \o <<",","\"","l","i","n","e","\"",":">> \o toString(todo.line)
    \o <<",","\"","c","o","n","t","e","n","t","\"",":">> \o jsonString(todo.content) \o <<",","\"","t","y","p","e","\"",":">> \o jsonString(todo.type) \o <<"}">>

jsonTodos(ts) ==
    Flatten([k \in 1..Len(ts) |-> (IF k > 1 THEN <<",">> ELSE <<>>) \o jsonTodo(ts[k])])

\* JSON.stringify(todos)
stringifyTodos(ts) == <<"[">> \o jsonTodos(ts) \o <<"]">>

\* const todoCount = todos.length
todoCountOf(ts) == Len(ts)

\* the file count without the Set: 'todos.map(todo => todo.file).length'
todoFilesNotDistinct(ts) == Len(ts)

\* const todoFiles = new Set(todos.map(todo => todo.file)).size
todoFilesOf(ts) == Cardinality({ts[i].file : i \in 1..Len(ts)})

\* run(), after the scan: the three outputs are set
Aggregate ==
    /\ pc = "aggregate"
    /\ outputs' = ("todo-count" :> toString(todoCountOf(todos)))
                  @@ ("todo-files" :> toString(todoFilesOf(todos)))
                  @@ ("todo-details" :> stringifyTodos(todos))
    /\ pc' = "gate"
    /\ UNCHANGED <<world, issues, threshold, excludePatterns, createIssues, labels, stack,
                   todos, failedMsg, warnings, pending, requests, cursor, created,
                   linked, faults, runs, prevTodos, history>>

\* const prNumber = context.payload.pull_request?.number || context.payload.number
\*                  || context.payload.issue?.number      (0 stands for undefined)
prNumberOf(ctx) ==
    IF ctx.hasPullRequest /\ ctx.pullRequestNumber # 0 THEN ctx.pullRequestNumber
    ELSE IF ctx.payloadNumber # 0 THEN ctx.payloadNumber
    ELSE ctx.issueNumber

\* the condition under which run() calls processTodosForIssues
\*   src:   createIssues && context.eventName === 'pull_request'
\*   strip: createIssues, and then prNumber || context.eventName === 'pull_request'
reconcilerInvoked(v, enabled, ctx) ==
    IF v = "src"
    THEN enabled /\ ctx.eventName = "pull_request"
    ELSE enabled /\ (prNumberOf(ctx) # 0 \/ ctx.eventName = "pull_request")

\* the core.warning run() gives when it does not call processTodosForIssues:
\* only the later copy has one, in the else branch of its context test
gateWarnings(v, enabled, ctx) ==
    IF v = "strip" /\ enabled /\ ~reconcilerInvoked(v, enabled, ctx)
    THEN << [what |-> "Issue creation is enabled but no PR context detected", path |-> <<>>] >>
    ELSE <<>>

\* run(): 'let issuesCreated = 0; let issuesLinked = 0;' and the issue gate;
\* processTodosForIssues starts with its labels and its two counters
IssueGate ==
    /\ pc = "gate"
    /\ created' = 0
    /\ linked' = 0
    /\ warnings' = warnings \o gateWarnings(variant, createIssues, context)
    /\ IF reconcilerInvoked(variant, createIssues, context)
       THEN /\ labels' = labelsOf(inputs.issueLabels)
            /\ cursor' = 1
            /\ pc' = "reconcile"
       ELSE /\ pc' = "finish"
            /\ UNCHANGED <<labels, cursor>>
    /\ UNCHANGED <<world, issues, threshold, excludePatterns, createIssues, stack, todos,
                   outputs, failedMsg, pending, requests, faults, runs, prevTodos, history>>

\* --------------------------------------------------------- Issue Reconciler
\* search.issuesAndPullRequests is called with per_page: 10
PerPage == 10

\* substring(0, 50) of the title
TitleLimit == 50

\* s holds p when case is ignored
includesCI(s, p) == \E i \in 1..(Len(s) - Len(p) + 1) : StartsWithAtCI(s, i, p)

\* the issues a search for the quoted phrase can return: those whose title or
\* body holds the phrase, in any case (the tracker's search ignores case)
searchHits(phrase) ==
    {i \in 1..Len(issues) : includesCI(issues[i].title, phrase) \/ includesCI(issues[i].body, phrase)}

\* the issues with the indexes in S, oldest first
issuesAt(S) ==
    Flatten([i \in 1..Len(issues) |-> IF i \in S THEN <<issues[i]>> ELSE <<>>])

\* the first page of the hits
firstPage(hits) == {i \in hits : Cardinality({j \in hits : j <= i}) <= PerPage}

\* the pages the search may answer with, as sets of indexes: the first page
\* of the hits, or (a fault: the index of the tracker lags) a page that
\* misses some of the hits
searchPages(hits) ==
    {T \in SUBSET hits : Cardinality(T) <= PerPage /\ (faults < MaxFaults \/ T = firstPage(hits))}

\* the test of the first loop without 'issue.body.includes(todo.content.trim())'
acceptsByContentNoText(todo, issue) ==
    /\ issue.body # <<>>
    /\ \/ includes(issue.body, todo.file)
       \/ includes(toLowerCase(issue.title), toLowerCase(TODO))
       \/ includes(toLowerCase(issue.title), toLowerCase(FIXME))
       \/ includes(toLowerCase(issue.title), toLowerCase(HACK))

\* findExistingIssue, first loop: the test of 'if (issue.body && (...))'
acceptsByContent(todo, issue) ==
    /\ issue.body # <<>>
    /\ \/ includes(issue.body, todo.file)
       \/ includes(issue.body, trim(todo.content))
       \/ includes(toLowerCase(issue.title), toLowerCase(TODO))
       \/ includes(toLowerCase(issue.title), toLowerCase(FIXME))
       \/ includes(toLowerCase(issue.title), toLowerCase(HACK))

\* findExistingIssue, second loop: 'issue.body && issue.body.includes(content)'
acceptsByFile(todo, issue) ==
    /\ issue.body # <<>>
    /\ includes(issue.body, trim(todo.content))

\* 'for (const issue of searchResults.items) if (...) return issue': the
\* number of the first accepted issue, 0 for none (return null)
firstAcceptedByContent(todo, items) ==
    LET ok == {k \in 1..Len(items) : acceptsByContent(todo, items[k])}
    IN IF ok = {} THEN 0 ELSE items[Min(ok)].number

\* the same for 'for (const issue of fileSearchResults.items)'
firstAcceptedByFile(todo, items) ==
    LET ok == {k \in 1..Len(items) : acceptsByFile(todo, items[k])}
    IN IF ok = {} THEN 0 ELSE items[Min(ok)].number

\* String.prototype.replace(/^opener\s*/, '')
stripLeading(s, opener) ==
    IF StartsWithAt(s, 1, opener) THEN From(s, SkipSpaces(s, Len(opener) + 1)) ELSE s

\* String.prototype.replace(/\s*closer$/, '')
stripTrailing(s, closer) ==
    IF Len(s) >= Len(closer) /\ StartsWithAt(s, Len(s) - Len(closer) + 1, closer)
    THEN SubSeq(s, 1, SkipSpacesBack(s, Len(s) - Len(closer)))
    ELSE s

\* String.prototype.replace(/\s+/g, ' '): every run of blanks becomes one space
collapseSpaces(s) ==
    Flatten([i \in 1..Len(s) |->
                IF ~IsSpace(s[i]) THEN <<s[i]>>
                ELSE IF i = 1 \/ ~IsSpace(s[i - 1]) THEN <<" ">>
                ELSE <<>>])

\* createIssueForTodo of the later copy: let cleanContent
cleanContentOf(content) ==
    LET s0 == trim(content)
        s1 == stripLeading(s0, <<"/","/">>)
        s2 == stripLeading(s1, <<"#">>)
        s3 == stripLeading(s2, <<"/","*">>)
        s4 == stripLeading(s3, <<"<","!","-","-">>)
        s5 == stripTrailing(s4, <<"*","/">>)
        s6 == stripTrailing(s5, <<"-","-",">">>)
    IN trim(collapseSpaces(s6))

\* /^(TODO|FIXME|HACK):\s*/i.test(cleanContent)
hasMarkerPrefix(s) ==
    \E kw \in {TODO, FIXME, HACK} : StartsWithAtCI(s, 1, kw \o <<":">>)

\* '${text.substring(0, 50)}${length > 50 ? '...' : ''}'
truncated(text, length) ==
    substring0(text, TitleLimit) \o (IF length > TitleLimit THEN <<".",".",".">> ELSE <<>>)

TodoPrefix == <<"T","O","D","O",":"," ">>

\* createIssueForTodo of the later copy: the title
titleStrip(todo) ==
    LET c == cleanContentOf(todo.content)
    IN IF hasMarkerPrefix(c)
       THEN truncated(c, Len(c))
       ELSE TodoPrefix \o truncated(c, Len(c))

\* createIssueForTodo of src/index.js: the title
titleSrc(todo) == TodoPrefix \o truncated(trim(todo.content), Len(todo.content))

titleOf(v, todo) == IF v = "src" THEN titleSrc(todo) ELSE titleStrip(todo)

\* String.prototype.replace(from, '') for a plain string: the first occurrence
removeFirst(s, from) ==
    LET at == {i \in 1..Len(s) : StartsWithAt(s, i, from)}
    IN IF at = {} THEN s
       ELSE SubSeq(s, 1, Min(at) - 1) \o From(s, Min(at) + Len(from))

\* the sentence of the **Context:** section
\*   src:   always the pull request sentence (the caller has checked that
\*          payload.pull_request is there before this text is used)
\*   strip: by prNumber, then by the push event, then the plain sentence
contextInfoOf(v, ctx) ==
    IF v = "src"
    THEN <<"T","h","i","s"," ","T","O","D","O"," ","w","a","s"," ","a","u","t","o","m","a","t","i","c","a","l","l","y"," ","d","e","t","e","c","t","e","d"," ","b","y"," ","t","h","e"," ","T","O","D","O"," ","C","r","e","e","p","e","r"," ","a","c","t","i","o","n"," ","i","n"," ","p","u","l","l"," ","r","e","q","u","e","s","t"," ","#">>
         \o toString(ctx.pullRequestNumber) \o <<".">>
    ELSE IF prNumberOf(ctx) # 0
    THEN <<"T","h","i","s"," ","T","O","D","O"," ","w","a","s"," ","a","u","t","o","m","a","t","i","c","a","l","l","y"," ","d","e","t","e","c","t","e","d"," ","b","y"," ","t","h","e"," ","T","O","D","O"," ","C","r","e","e","p","e","r"," ","a","c","t","i","o","n"," ","i","n"," ","p","u","l","l"," ","r","e","q","u","e","s","t"," ","#">>
         \o toString(prNumberOf(ctx)) \o <<".">>
    ELSE IF ctx.eventName = "push"
    THEN <<"T","h","i","s"," ","T","O","D","O"," ","w","a","s"," ","a","u","t","o","m","a","t","i","c","a","l","l","y"," ","d","e","t","e","c","t","e","d"," ","b","y"," ","t","h","e"," ","T","O","D","O"," ","C","r","e","e","p","e","r"," ","a","c","t","i","o","n"," ","i","n"," ","c","o","m","m","i","t"," ">>
         \o substring0(ctx.sha, 7) \o <<" ","o","n"," ","b","r","a","n","c","h"," ">> \o removeFirst(ctx.ref, <<"r","e","f","s","/","h","e","a","d","s","/">>) \o <<".">>
    ELSE <<"T","h","i","s"," ","T","O","D","O"," ","w","a","s"," ","a","u","t","o","m","a","t","i","c","a","l","l","y"," ","d","e","t","e","c","t","e","d"," ","b","y"," ","t","h","e"," ","T","O","D","O"," ","C","r","e","e","p","e","r"," ","a","c","t","i","o","n",".">>

\* the body template of createIssueForTodo ("backtick" stands for the one
\* character that a string of this notation cannot hold)
bodyOf(v, todo, ctx) ==
    <<"#","#"," ","T","O","D","O"," ","I","t","e","m","\n","\n","*","*","F","i","l","e",":","*","*"," ","backtick">> \o todo.file
    \o <<"backtick","\n","*","*","L","i","n","e",":","*","*"," ">> \o toString(todo.line)
    \o <<"\n","*","*","T","y","p","e",":","*","*"," ">> \o todo.type
    \o <<"\n","\n","*","*","C","o","n","t","e","n","t",":","*","*","\n","backtick","backtick","backtick","\n">> \o trim(todo.content)
    \o <<"\n","backtick","backtick","backtick","\n","\n","*","*","C","o","n","t","e","x","t",":","*","*","\n">> \o contextInfoOf(v, ctx)
    \o <<"\n","\n","*","*","A","c","t","i","o","n"," ","R","e","q","u","i","r","e","d",":","*","*","\n","P","l","e","a","s","e"," ","r","e","v","i","e","w"," ","t","h","i","s"," ","T","O","D","O"," ","a","n","d"," ","e","i","t","h","e","r",":","\n","1","."," ","A","d","d","r","e","s","s"," ","t","h","e"," ","T","O","D","O"," ","i","t","e","m","\n","2","."," ","C","r","e","a","t","e"," ","a"," ","p","r","o","p","e","r"," ","i","s","s","u","e"," ","w","i","t","h"," ","m","o","r","e"," ","d","e","t","a","i","l","s","\n","3","."," ","R","e","m","o","v","e"," ","t","h","e"," ","T","O","D","O"," ","i","f"," ","i","t","'","s"," ","n","o"," ","l","o","n","g","e","r"," ","n","e","e","d","e","d","\n","\n","-","-","-","\n","*","T","h","i","s"," ","i","s","s","u","e"," ","w","a","s"," ","a","u","t","o","m","a","t","i","c","a","l","l","y"," ","c","r","e","a","t","e","d"," ","b","y"," ","[","T","O","D","O"," ","C","r","e","e","p","e","r","]","(","h","t","t","p","s",":","/","/","g","i","t","h","u","b",".","c","o","m","/","G","u","s","t","r","b","/","t","o","d","o","-","c","r","e","e","p","e","r",")","*">>

\* the assignees of the create request
\*   src:   [context.payload.pull_request.user.login]
\*   strip: with a prNumber, pull_request?.user?.login || sender?.login, if any
assigneesOf(v, ctx) ==
    IF v = "src" THEN <<ctx.pullRequestLogin>>
    ELSE IF prNumberOf(ctx) = 0 THEN <<>>
    ELSE IF ctx.hasPullRequest /\ ctx.pullRequestLogin # "" THEN <<ctx.pullRequestLogin>>
    ELSE IF ctx.senderLogin # "" THEN <<ctx.senderLogin>>
    ELSE <<>>

\* createIssueForTodo of src/index.js reads context.payload.pull_request.number
\* and .user.login: a TypeError when the payload has no pull_request
createThrows(v, ctx) == v = "src" /\ ~ctx.hasPullRequest

\* the argument of issues.create
issueDataOf(v, todo, ctx, lbls) ==
    [kind |-> "create",
     title |-> titleOf(v, todo),
     body |-> bodyOf(v, todo, ctx),
     labels |-> lbls,
     assignees |-> assigneesOf(v, ctx)]

\* the todo of the current turn of 'for (const todo of todos)'
CurrentTodo == todos[cursor]

\* the todo is done with (linked, created, or given up with a warning): the
\* for loop of processTodosForIssues goes to the next one
nextTodo(outcome) ==
    /\ fate' = Append(fate, outcome)
    /\ cursor' = cursor + 1
    /\ pending' = NoRequest
    /\ pc' = "reconcile"

\* findExistingIssue has returned null: createIssueForTodo builds the issue
\* and requests its creation; 'said' are the warnings given on the way here.
\* When building it throws, the catch of processTodosForIssues warns instead.
beginCreate(said) ==
    IF createThrows(variant, context)
    THEN /\ warnings' = warnings \o said
                        \o << [what |-> "Failed to process TODO", path |-> CurrentTodo.file] >>
         /\ nextTodo("skipped")
         /\ UNCHANGED requests
    ELSE /\ warnings' = warnings \o said
         /\ await(issueDataOf(variant, CurrentTodo, context, labels) @@ [todo |-> cursor],
                  "await_create")
         /\ UNCHANGED <<cursor, fate>>

\* the head of the for loop when the turns are not awaited: the raw-text
\* search of the todo is requested and the loop goes to the next todo at once
ReconcileNextNoAwait ==
    /\ pc = "reconcile"
    /\ IF cursor <= Len(todos)
       THEN /\ pending' = [kind |-> "search", by |-> "content",
                           phrase |-> trim(CurrentTodo.content), todo |-> cursor]
            /\ requests' = Append(requests, pending')
            /\ cursor' = cursor + 1
            /\ pc' = "reconcile"
       ELSE /\ pc' = "finish"
            /\ UNCHANGED <<pending, requests, cursor>>
    /\ UNCHANGED <<world, issues, threshold, excludePatterns, createIssues, labels, stack,
                   todos, outputs, failedMsg, warnings, created, linked, faults,
                   runs, prevTodos, history>>

\* processTodosForIssues: the head of the for loop; a turn starts with the
\* raw-text search of findExistingIssue, and after the last todo the counters
\* are returned to run()
ReconcileNext ==
    /\ pc = "reconcile"
    /\ IF cursor <= Len(todos)
       THEN await([kind |-> "search", by |-> "content",
                   phrase |-> trim(CurrentTodo.content), todo |-> cursor], "await_search1")
       ELSE /\ pc' = "finish"
            /\ UNCHANGED <<pending, requests>>
    /\ UNCHANGED <<world, issues, threshold, excludePatterns, createIssues, labels, stack,
                   todos, outputs, failedMsg, warnings, cursor, created, linked, faults,
                   runs, prevTodos, history>>

\* the raw-text search answers and, with no issue accepted, the issue is
\* created at once: findExistingIssue without its file-path search
ContentSearchDoneSkipsFileStep ==
    /\ pc = "await_search1"
    /\ LET hits == searchHits(pending.phrase)
       IN \E page \in searchPages(hits) :
          LET items == issuesAt(page)
          IN
          /\ faults' = IF page = firstPage(hits) THEN faults ELSE faults + 1
          /\ replies' = Append(replies, [todo |-> cursor, by |-> "content", failed |-> FALSE,
                                         numbers |-> [k \in 1..Len(items) |-> items[k].number]])
          /\ IF firstAcceptedByContent(CurrentTodo, items) # 0
             THEN /\ linked' = linked + 1
                  /\ nextTodo("linked")
                  /\ UNCHANGED <<requests, warnings>>
             ELSE /\ beginCreate(<<>>)
                  /\ UNCHANGED linked
    /\ UNCHANGED <<world, issues, threshold, excludePatterns, createIssues, labels, stack,
                   todos, outputs, failedMsg, created, runs, prevTodos>>

\* the raw-text search answers and processTodosForIssues goes on to create the
\* issue without looking at what findExistingIssue has found
ContentSearchDoneNoLink ==
    /\ pc = "await_search1"
    /\ LET hits == searchHits(pending.phrase)
       IN \E page \in searchPages(hits) :
          LET items == issuesAt(page)
          IN
          /\ faults' = IF page = firstPage(hits) THEN faults ELSE faults + 1
          /\ replies' = Append(replies, [todo |-> cursor, by |-> "content", failed |-> FALSE,
                                         numbers |-> [k \in 1..Len(items) |-> items[k].number]])
          /\ beginCreate(<<>>)
    /\ UNCHANGED <<world, issues, threshold, excludePatterns, createIssues, labels, stack,
                   todos, outputs, failedMsg, created, linked, runs, prevTodos>>

\* the raw-text search answers: the first accepted issue links the todo,
\* otherwise the file-path search is requested
ContentSearchDone ==
    /\ pc = "await_search1"
    /\ LET hits == searchHits(pending.phrase)
       IN \E page \in searchPages(hits) :
          LET items == issuesAt(page)
          IN
          /\ faults' = IF page = firstPage(hits) THEN faults ELSE faults + 1
          /\ replies' = Append(replies, [todo |-> cursor, by |-> "content", failed |-> FALSE,
                                         numbers |-> [k \in 1..Len(items) |-> items[k].number]])
          /\ IF firstAcceptedByContent(CurrentTodo, items) # 0
             THEN /\ linked' = linked + 1
                  /\ nextTodo("linked")
                  /\ UNCHANGED requests
             ELSE /\ await([kind |-> "search", by |-> "file",
                            phrase |-> CurrentTodo.file, todo |-> cursor], "await_search2")
                  /\ UNCHANGED <<linked, cursor, fate>>
    /\ UNCHANGED <<world, issues, threshold, excludePatterns, createIssues, labels, stack,
                   todos, outputs, failedMsg, warnings, created, runs, prevTodos>>

\* the file-path search answers: an accepted issue links the todo, otherwise
\* findExistingIssue returns null and the issue is created
FileSearchDone ==
    /\ pc = "await_search2"
    /\ LET hits == searchHits(pending.phrase)
       IN \E page \in searchPages(hits) :
          LET items == issuesAt(page)
          IN
          /\ faults' = IF page = firstPage(hits) THEN faults ELSE faults + 1
          /\ replies' = Append(replies, [todo |-> cursor, by |-> "file", failed |-> FALSE,
                                         numbers |-> [k \in 1..Len(items) |-> items[k].number]])
          /\ IF firstAcceptedByFile(CurrentTodo, items) # 0
             THEN /\ linked' = linked + 1
                  /\ nextTodo("linked")
                  /\ UNCHANGED <<requests, warnings>>
             ELSE /\ beginCreate(<<>>)
                  /\ UNCHANGED linked
    /\ UNCHANGED <<world, issues, threshold, excludePatterns, createIssues, labels, stack,
                   todos, outputs, failedMsg, created, runs, prevTodos>>

\* either search fails and the finding is given up with the warning
SearchFailedSkips ==
    /\ pc \in {"await_search1", "await_search2"}
    /\ faults < MaxFaults
    /\ faults' = faults + 1
    /\ replies' = Append(replies, [todo |-> cursor, by |-> pending.by, failed |-> TRUE,
                                   numbers |-> <<>>])
    /\ warnings' = Append(warnings, [what |-> "Failed to search for existing issues",
                                     path |-> <<>>])
    /\ nextTodo("skipped")
    /\ UNCHANGED <<world, issues, threshold, excludePatterns, createIssues, labels, stack,
                   todos, outputs, failedMsg, requests, created, linked, runs, prevTodos>>

\* either search fails: the catch of findExistingIssue warns and returns null,
\* so the issue is created
SearchFailed ==
    /\ pc \in {"await_search1", "await_search2"}
    /\ faults < MaxFaults
    /\ faults' = faults + 1
    /\ replies' = Append(replies, [todo |-> cursor, by |-> pending.by, failed |-> TRUE,
                                   numbers |-> <<>>])
    /\ beginCreate(<< [what |-> "Failed to search for existing issues", path |-> <<>>] >>)
    /\ UNCHANGED <<world, issues, threshold, excludePatterns, createIssues, labels, stack,
                   todos, outputs, failedMsg, created, linked, runs, prevTodos>>

\* the tracker creates the issue, with the next number
CreateDone ==
    /\ pc = "await_create"
    /\ issues' = Append(issues, [number |-> issues[Len(issues)].number + 1,
                                 title |-> pending.title,
                                 body |-> pending.body,
                                 labels |-> pending.labels,
                                 assignees |-> pending.assignees])
    /\ created' = created + 1
    /\ nextTodo("created")
    /\ UNCHANGED <<world, threshold, excludePatterns, createIssues, labels, stack, todos,
                   outputs, failedMsg, warnings, requests, linked, faults, runs, prevTodos,
                   replies>>

\* the create request fails and the failure ends the for loop: the catch
\* around the loop instead of inside it
CreateFailedAborts ==
    /\ pc = "await_create"
    /\ faults < MaxFaults
    /\ faults' = faults + 1
    /\ warnings' = Append(warnings, [what |-> "Failed to process TODO", path |-> CurrentTodo.file])
    /\ fate' = Append(fate, "skipped")
    /\ pending' = NoRequest
    /\ pc' = "finish"
    /\ UNCHANGED <<world, issues, threshold, excludePatterns, createIssues, labels, stack,
                   todos, outputs, failedMsg, requests, cursor, created, linked, runs,
                   prevTodos, replies>>

\* the create request fails: the catch of processTodosForIssues warns
CreateFailed ==
    /\ pc = "await_create"
    /\ faults < MaxFaults
    /\ faults' = faults + 1
    /\ warnings' = Append(warnings, [what |-> "Failed to process TODO", path |-> CurrentTodo.file])
    /\ nextTodo("skipped")
    /\ UNCHANGED <<world, issues, threshold, excludePatterns, createIssues, labels, stack,
                   todos, outputs, failedMsg, requests, created, linked, runs, prevTodos,
                   replies>>

\* ------------------------------------------------------- the threshold gate
\* the gate with the comparison off by one: 'todoCount >= threshold'
exceedsOrEqual(todoCount, limit) == todoCount >= limit

\* if (todoCount > threshold) core.setFailed(...)
exceeds(todoCount, limit) == todoCount > limit

\* run(), to its end: the two issue outputs and the threshold check
Finish ==
    /\ pc = "finish"
    /\ outputs' = outputs @@ ("issues-created" :> toString(created))
                          @@ ("issues-linked" :> toString(linked))
    /\ failedMsg' = IF exceeds(todoCountOf(todos), threshold) THEN "Too many TODOs found" ELSE ""
    /\ pc' = "done"
    /\ UNCHANGED <<world, issues, threshold, excludePatterns, createIssues, labels, stack,
                   todos, warnings, pending, requests, cursor, created, linked, faults,
                   runs, prevTodos, history>>

\* the workflow runs the action again on the same snapshot, with the same
\* inputs: a new process, so nothing of the run is kept but the tracker
Rerun ==
    /\ pc = "done"
    /\ runs < MaxRuns
    /\ runs' = runs + 1
    /\ prevTodos' = todos
    /\ pc' = "start"
    /\ threshold' = 0
    /\ excludePatterns' = <<>>
    /\ createIssues' = FALSE
    /\ labels' = <<>>
    /\ stack' = <<>>
    /\ todos' = <<>>
    /\ outputs' = <<>>
    /\ failedMsg' = ""
    /\ warnings' = <<>>
    /\ pending' = NoRequest
    /\ requests' = <<>>
    /\ cursor' = 0
    /\ created' = 0
    /\ linked' = 0
    /\ replies' = <<>>
    /\ fate' = <<>>
    /\ UNCHANGED <<world, issues, faults>>

Next ==
    \/ RunStart
    \/ RootListed
    \/ RootFailed
    \/ ScanItem
    \/ DirListed
    \/ DirFailed
    \/ FileFetched
    \/ FileFailed
    \/ ScanReturn
    \/ Aggregate
    \/ IssueGate
    \/ ReconcileNext
    \/ ContentSearchDone
    \/ FileSearchDone
    \/ SearchFailed
    \/ CreateDone
    \/ CreateFailed
    \/ Finish

\* one run of the action
Spec == Init /\ [][Next]_vars

\* the action run again on the same snapshot: the inputs that do not bear on
\* the scan are fixed
InitRerun ==
    /\ Init
    /\ inputs.token
    /\ inputs.threshold = <<>>
    /\ context.eventName # "issue_comment"

NextRerun == Next \/ Rerun

SpecRerun == InitRerun /\ [][NextRerun]_vars


\* ============================================================== properties
\* the scan is over and its result is in 'todos'
ScanFinished ==
    \/ pc \in {"aggregate", "gate", "reconcile", "await_search1", "await_search2",
               "await_create", "finish"}
    \/ pc = "done" /\ "todo-count" \in DOMAIN outputs

\* run() has gone through its last step, the threshold check
ThresholdStepDone == pc = "done" /\ "issues-created" \in DOMAIN outputs

\* the paths of the findings there are, returned or still in an activation
\* of the scan
findingFiles ==
    {todos[i].file : i \in 1..Len(todos)}
    \cup UNION {{stack[k].todos[i].file : i \in 1..Len(stack[k].todos)} : k \in 1..Len(stack)}

\* the positions in the log of the requests of a kind
requestsOf(kind) == {k \in 1..Len(requests) : requests[k].kind = kind}

\* the paths requested with a kind of request
requestedPaths(kind) == {requests[k].path : k \in requestsOf(kind)}

\* --------------------------------------------------------------------- C1
\* C1: a run that reaches the threshold step with n findings and effective
\* threshold t has called setFailed if and only if n > t; with n = t it has not.
C1_FailsIffAboveThreshold ==
    ThresholdStepDone => ((failedMsg # "") <=> (Len(todos) > threshold))

\* a run went through the threshold step with as many findings as the
\* threshold allows, and passed
C1_Witness ==
    /\ ThresholdStepDone
    /\ Len(todos) > 0
    /\ Len(todos) = threshold
    /\ failedMsg = ""

\* --------------------------------------------------------------------- C2
\* the threshold the workflow configures: the default only when none is given
configuredThreshold ==
    IF inputs.threshold = <<>> THEN DefaultThreshold ELSE parseInt(inputs.threshold).value

\* C2: the gate uses the configured threshold for every configured value, 0
\* included, and a run with threshold 0 and exactly one finding fails.
C2_ConfiguredThresholdUsed ==
    /\ (inputs.token /\ pc # "start") => threshold = configuredThreshold
    /\ (ThresholdStepDone /\ inputs.threshold = <<"0">> /\ Len(todos) = 1) => failedMsg # ""

\* --------------------------------------------------------------------- C3
\* the path holds a member of the exclusion set as a substring
holdsExcluded(path) ==
    \E k \in 1..Len(excludePatterns) : includes(path, excludePatterns[k])

\* C3: no finding has a path that holds a member of the exclusion set, and no
\* listing or content request is ever made for such a path, so nothing under
\* an excluded directory is listed, fetched or reported.
C3_ExcludedNeverScanned ==
    /\ \A f \in findingFiles : ~holdsExcluded(f)
    /\ \A d \in requestedPaths("list") : ~holdsExcluded(d)
    /\ \A f \in requestedPaths("content") : ~holdsExcluded(f)

\* a scan is over that found markers, while a directory and a file with
\* markers were left out by the exclusion set
C3_Witness ==
    /\ pc = "aggregate"
    /\ todos # <<>>
    /\ \E d \in DirPaths : holdsExcluded(d)
    /\ \E f \in FilePaths : holdsExcluded(f) /\ fileTodos([path |-> f], getFileContent(f)) # <<>>

\* --------------------------------------------------------------------- C4
\* the entry of the snapshot with the path
entryAt(path) ==
    CHOOSE e \in UNION {Range(l.entries) : l \in Range(Listings)} : e.path = path

\* the lowercase extension of the file is in the allow-list
allowListed(path) == toLowerCase(extname(entryAt(path).name)) \in codeExtensions

\* the directory the path is listed in has been listed by the scan
parentListed(path) ==
    \E d \in requestedPaths("list") :
        \E k \in 1..Len(listDirectory(d)) : listDirectory(d)[k].path = path

\* C4: a file whose lowercase extension is not in the allow-list (one with no
\* extension included) is never fetched and contributes no finding.
C4_OnlyAllowListedFetched ==
    /\ \A f \in requestedPaths("content") : allowListed(f)
    /\ \A f \in findingFiles : allowListed(f)

\* a scan is over that went past two files with markers that are not
\* excluded, one with an extension outside the allow-list and one with none
C4_Witness ==
    /\ pc = "aggregate"
    /\ \E f, g \in FilePaths :
          /\ extname(entryAt(f).name) = <<>>
          /\ extname(entryAt(g).name) # <<>>
          /\ \A h \in {f, g} :
                /\ ~allowListed(h)
                /\ ~holdsExcluded(h)
                /\ parentListed(h)
                /\ fileTodos([path |-> h], getFileContent(h)) # <<>>

\* --------------------------------------------------------------------- C5
\* the distinct paths among the findings
findingPaths == {todos[i].file : i \in 1..Len(todos)}

\* C5: once the outputs are set, todo-count is the number of findings and
\* todo-files the number of distinct paths among them, so that todo-files is
\* at most todo-count and is 0 exactly when todo-count is.
C5_CountsMatchFindings ==
    "todo-count" \in DOMAIN outputs =>
        LET count == parseInt(outputs["todo-count"])
            files == parseInt(outputs["todo-files"])
        IN /\ ~count.nan /\ count.value = Len(todos)
           /\ ~files.nan /\ files.value = Cardinality(findingPaths)
           /\ files.value <= count.value
           /\ (files.value = 0) <=> (count.value = 0)

\* the outputs are set for findings in several files, one of them with more
\* than one finding
C5_Witness ==
    /\ "todo-count" \in DOMAIN outputs
    /\ Cardinality(findingPaths) > 1
    /\ Cardinality(findingPaths) < Len(todos)
    /\ outputs["todo-files"] = toString(Cardinality(findingPaths))

\* --------------------------------------------------------------------- C6
\* some pattern with the keyword matches the line
keywordMatches(keyword, line) ==
    \E k \in 1..Len(todoPatterns) :
        todoPatterns[k].keyword = keyword /\ patternTest(todoPatterns[k], line)

\* the kind of a matching line: TODO before FIXME before HACK
lineKind(line) ==
    IF keywordMatches(TODO, line) THEN TODO
    ELSE IF keywordMatches(FIXME, line) THEN FIXME
    ELSE HACK

\* the paths whose content the scan has fetched
fetchedPaths == requestedPaths("content") \ failing

\* C6: for every line of every file the scan has fetched there is exactly one
\* finding when the line matches one of the twelve patterns and none when it
\* does not, so no two findings share path and line; the kind of the finding
\* is TODO when a TODO pattern matches, else FIXME when a FIXME pattern
\* matches, else HACK.
C6_OneFindingPerMatchingLine ==
    pc = "aggregate" =>
        /\ \A i \in 1..Len(todos) : todos[i].file \in fetchedPaths
        /\ \A f \in fetchedPaths :
              LET lines == split(getFileContent(f).content, "\n")
              IN \A n \in 1..Len(lines) :
                    LET at == {i \in 1..Len(todos) : todos[i].file = f /\ todos[i].line = n}
                    IN IF \E kw \in {TODO, FIXME, HACK} : keywordMatches(kw, lines[n])
                       THEN /\ Cardinality(at) = 1
                            /\ \A i \in at : todos[i].type = lineKind(lines[n])
                       ELSE at = {}

\* a scan is over that met a line with a HACK and a TODO marker, reported as
\* TODO, and a line with a FIXME and a HACK marker, reported as FIXME
C6_Witness ==
    /\ pc = "aggregate"
    /\ \E i, j \in 1..Len(todos) :
          /\ keywordMatches(HACK, todos[i].content)
          /\ keywordMatches(TODO, todos[i].content)
          /\ todos[i].type = TODO
          /\ keywordMatches(HACK, todos[j].content)
          /\ keywordMatches(FIXME, todos[j].content)
          /\ todos[j].type = FIXME

\* --------------------------------------------------------------------- C7
\* C7: a scan run again on the unchanged snapshot with the same exclusion set
\* returns the finding sequence of the scan before it: same length, same
\* order, same path, line, content and kind at every position.
C7_ScanIdempotent ==
    (runs > 1 /\ ScanFinished) => todos = prevTodos

\* the second scan is over with several findings, after a first run that
\* created issues in the tracker
C7_Witness ==
    /\ runs = 2
    /\ pc = "aggregate"
    /\ Len(todos) >= 3
    /\ Len(issues) > Len(InitialIssues)
    /\ todos = prevTodos

\* --------------------------------------------------------------------- C8
\* the cleaned content of a finding, as the running copy cleans it
cleanedOf(v, content) == IF v = "src" THEN trim(content) ELSE cleanContentOf(content)

\* the cleaned content with its prefix
prefixedOf(v, cleaned) ==
    IF v = "strip" /\ hasMarkerPrefix(cleaned) THEN cleaned ELSE TodoPrefix \o cleaned

\* the text ends with the ellipsis
endsWithEllipsis(text) == Len(text) >= 3 /\ StartsWithAt(text, Len(text) - 2, <<".",".",".">>)

\* C8: the title of every issue whose creation is requested has no trailing
\* ellipsis when the cleaned content has at most 50 characters, is the first
\* 50 characters of the cleaned and prefixed text followed by '...' when it
\* has more, and is never longer than 53 characters.
C8_TitleTruncation ==
    \A k \in requestsOf("create") :
        LET r == requests[k]
            cleaned == cleanedOf(variant, todos[r.todo].content)
        IN /\ Len(cleaned) <= TitleLimit => ~endsWithEllipsis(r.title)
           /\ Len(cleaned) > TitleLimit =>
                 r.title = substring0(prefixedOf(variant, cleaned), TitleLimit) \o <<".",".",".">>
           /\ Len(r.title) <= TitleLimit + 3

\* --------------------------------------------------------------------- C9
\* the triggering context carries pull-request identity, in the widest sense
prIdentity ==
    context.hasPullRequest \/ context.eventName = "pull_request" \/ prNumberOf(context) # 0

\* the diagnostic of a run that was asked to create issues outside a pull request
diagnosticLogged ==
    \E k \in 1..Len(warnings) :
        warnings[k].what = "Issue creation is enabled but no PR context detected"

\* C9: search and create requests are made only when issue creation is
\* enabled and the context carries pull-request identity; every other run
\* outputs issues-created = 0 and issues-linked = 0, and when issue creation
\* was enabled it has logged a diagnostic and fails exactly when the number of
\* findings is above the threshold.
C9_ReconcilerOnlyForPullRequests ==
    /\ requestsOf("search") \cup requestsOf("create") # {} => createIssues /\ prIdentity
    /\ (ThresholdStepDone /\ ~(createIssues /\ prIdentity)) =>
          /\ outputs["issues-created"] = <<"0">>
          /\ outputs["issues-linked"] = <<"0">>
    /\ (ThresholdStepDone /\ createIssues /\ ~prIdentity) =>
          /\ diagnosticLogged
          /\ (failedMsg # "") <=> (Len(todos) > threshold)

\* -------------------------------------------------------------------- C10
\* the issue of the tracker with the number
issueNumbered(number) == issues[CHOOSE i \in 1..Len(issues) : issues[i].number = number]

\* the todo of the for loop was linked and no create request was made for it
linkedNotCreated(index) ==
    /\ index <= Len(fate)
    /\ fate[index] = "linked"
    /\ \A k \in requestsOf("create") : requests[k].todo # index

\* the raw-text search answered with an issue whose body holds the trimmed
\* text of the finding
answeredWithText(reply) ==
    /\ reply.by = "content"
    /\ \E m \in 1..Len(reply.numbers) :
          includes(issueNumbered(reply.numbers[m]).body, trim(todos[reply.todo].content))

\* C10: a finding whose trimmed raw text is (or is held in) the body of an
\* issue that the raw-text search returns is counted as linked, and no create
\* request is made for it.
C10_KnownTextIsLinked ==
    /\ \A k \in 1..Len(replies) :
          replies[k].by = "content" =>
              (linkedNotCreated(replies[k].todo) \/ ~answeredWithText(replies[k]))
    /\ linked = Cardinality({i \in 1..Len(fate) : fate[i] = "linked"})
    /\ ThresholdStepDone => outputs["issues-linked"] = toString(linked)

\* a run is over in which the raw-text search returned an issue whose body is
\* the text of a finding, and the finding is among the linked ones
C10_Witness ==
    /\ ThresholdStepDone
    /\ outputs["issues-linked"] # <<"0">>
    /\ \E k \in 1..Len(replies) :
          /\ answeredWithText(replies[k])
          /\ linkedNotCreated(replies[k].todo)
          /\ \E m \in 1..Len(replies[k].numbers) :
                issueNumbered(replies[k].numbers[m]).body = trim(todos[replies[k].todo].content)

\* -------------------------------------------------------------------- C11
\* the positions in the tracker of the issues the action has created
createdIssues == {i \in 1..Len(issues) : i > Len(InitialIssues)}

\* the issue is one the action has created for a finding with the path and
\* the raw text of the todo: its body names the file and quotes the text
createdFor(issue, todo) ==
    /\ includes(issue.body, <<"*","*","F","i","l","e",":","*","*"," ","backtick">> \o todo.file \o <<"backtick","\n","*","*","L","i","n","e",":","*","*"," ">>)
    /\ includes(issue.body, <<"*","*","C","o","n","t","e","n","t",":","*","*","\n","backtick","backtick","backtick","\n">> \o trim(todo.content) \o <<"\n","backtick","backtick","backtick","\n">>)

\* the search answered with an issue created for the finding it was made for
answeredWithOwnIssue(reply) ==
    \E m \in 1..Len(reply.numbers) :
        LET issue == issueNumbered(reply.numbers[m])
        IN issue.number > Len(InitialIssues) /\ createdFor(issue, todos[reply.todo])

\* no request to the tracker has gone wrong so far, in this run or before
searchesSucceeded == faults = Cardinality(failing)

\* C11: a finding for which a search returns the issue created earlier for
\* the same path and raw text (earlier in the run or in a run before) is
\* linked and no create request is made for it; and while no search or create
\* goes wrong, at the end of every run no two created issues are for the
\* same path and raw text.
C11_NoSecondIssue ==
    /\ \A k \in 1..Len(replies) :
          linkedNotCreated(replies[k].todo) \/ ~answeredWithOwnIssue(replies[k])
    /\ (pc = "done" /\ searchesSucceeded) =>
          \A i, j \in createdIssues :
              i < j => \A t \in 1..Len(todos) :
                          ~(createdFor(issues[i], todos[t]) /\ createdFor(issues[j], todos[t]))

\* a second run is over, without a fault, in which two findings with the same
\* path and raw text were both linked to the one issue the first run created
C11_Witness ==
    /\ runs = 2
    /\ pc = "done"
    /\ searchesSucceeded
    /\ \E a, b \in 1..Len(todos) :
          /\ a < b
          /\ todos[a].file = todos[b].file
          /\ todos[a].content = todos[b].content
          /\ linkedNotCreated(a)
          /\ linkedNotCreated(b)
          /\ Cardinality({i \in createdIssues : createdFor(issues[i], todos[a])}) = 1
          /\ \E k \in 1..Len(replies) : replies[k].todo = b /\ answeredWithOwnIssue(replies[k])

\* -------------------------------------------------------------------- C12
\* the fetches of the run that have failed: the requested paths whose
\* request fails, but for the one still outstanding
failedFetches ==
    {requests[k].path : k \in {j \in requestsOf("list") \cup requestsOf("content") :
                                  requests[j].path \in failing /\ requests[j] # pending}}

\* C12: every failed fetch (the listing of the root included) has been turned
\* into a warning, and a run with a credential that has ended has set
\* todo-count, todo-files and todo-details and reports failure only when the
\* findings are above the threshold.
C12_FetchFailuresAreWarnings ==
    /\ \A f \in failedFetches : \E k \in 1..Len(warnings) : warnings[k].path = f
    /\ (pc = "done" /\ inputs.token) =>
          /\ {"todo-count", "todo-files", "todo-details"} \subseteq DOMAIN outputs
          /\ failedMsg # "" => Len(todos) > threshold

\* -------------------------------------------------------------------- C13
\* the number of warnings with the text
warningsOf(what) == Cardinality({k \in 1..Len(warnings) : warnings[k].what = what})

\* the searches of the run that have failed
failedSearches == {k \in 1..Len(replies) : replies[k].failed}

\* the reconciler has gone through all the findings
ReconcilerFinished ==
    /\ pc \in {"finish", "done"}
    /\ reconcilerInvoked(variant, createIssues, context)
    /\ "todo-count" \in DOMAIN outputs

\* C13: every failed issue search (by raw text or by file path) has been
\* logged as a warning and was followed by a create request for its finding,
\* which is therefore not linked; and the reconciler still goes through all
\* the findings.
C13_SearchFailureCreates ==
    /\ warningsOf("Failed to search for existing issues") = Cardinality(failedSearches)
    /\ \A k \in failedSearches :
          /\ \E q \in requestsOf("create") : requests[q].todo = replies[k].todo
          /\ replies[k].todo <= Len(fate) => fate[replies[k].todo] # "linked"
    /\ ReconcilerFinished => Len(fate) = Len(todos)

\* a reconciler run is over in which a search failed for a finding that is
\* not the last: the issue was created and the next finding was linked or
\* created too
C13_Witness ==
    /\ ReconcilerFinished
    /\ \E k \in failedSearches :
          /\ replies[k].todo < Len(todos)
          /\ fate[replies[k].todo] = "created"
          /\ fate[replies[k].todo + 1] \in {"linked", "created"}

\* -------------------------------------------------------------------- C14
\* C14: when the reconciler has gone through the findings, the findings
\* created, the findings linked and the findings whose create request failed
\* add up to the number of findings, the created ones are as many as the
\* issues the tracker has gained, and the output issues-created says so.
C14_CreateFailureSkipsOne ==
    ReconcilerFinished =>
        /\ Len(fate) = Len(todos)
        /\ created + linked + warningsOf("Failed to process TODO") = Len(todos)
        /\ created = Cardinality(createdIssues)
        /\ \A i \in 1..Len(fate) :
              fate[i] = "skipped" => \E q \in requestsOf("create") : requests[q].todo = i
        /\ pc = "done" => outputs["issues-created"] = toString(Cardinality(createdIssues))

\* a reconciler run is over in which the create request of a finding that is
\* not the last one failed, and findings after it were created and linked
C14_Witness ==
    /\ ReconcilerFinished
    /\ pc = "done"
    /\ warningsOf("Failed to process TODO") = 1
    /\ \E i, j, k \in 1..Len(fate) :
          /\ i < j /\ i < k
          /\ fate[i] = "skipped"
          /\ fate[j] = "created"
          /\ fate[k] = "linked"

\* -------------------------------------------------------------------- C15
\* the findings of the scan of a directory when no fetch fails: the entries
\* in listing order, a directory by its own scan, a file by its lines
RECURSIVE failureFreeScan(_)
failureFreeScan(dirPath) ==
    LET contents == listDirectory(dirPath)
    IN Flatten([k \in 1..Len(contents) |->
                   LET itemPath == itemPathOf(dirPath, contents[k])
                   IN IF holdsExcluded(itemPath) THEN <<>>
                      ELSE IF contents[k].type = "dir" THEN failureFreeScan(itemPath)
                      ELSE IF allowListed(itemPath)
                           THEN fileTodos(contents[k], getFileContent(itemPath))
                      ELSE <<>>])

\* the finding is in a file whose fetch fails or under a directory whose
\* listing fails
lostToFailure(finding) ==
    \E f \in failing :
        finding.file = f \/ StartsWithAt(finding.file, 1, f \o <<"/">>)

\* the sequence without the findings lost to a failure, in the same order
withoutLost(findings) ==
    Flatten([k \in 1..Len(findings) |->
                IF lostToFailure(findings[k]) THEN <<>> ELSE <<findings[k]>>])

\* C15: when a listing below the root or a file fetch fails, the result of
\* the scan is the result of the failure-free scan without the findings of
\* the failed directory's subtree or of the failed file; every other finding
\* is there, unchanged and in the same order.
C15_FailureRemovesOnlyItsFindings ==
    pc = "aggregate" => todos = withoutLost(failureFreeScan(RootPath))

\* a scan is over in which the fetch of a file with findings failed, and the
\* findings of a file listed after it in the same directory are reported
C15_Witness ==
    /\ pc = "aggregate"
    /\ failing \cap FilePaths # {}
    /\ \E k \in 1..Len(warnings) : warnings[k].what = "Failed to scan file"
    /\ todos # <<>>
    /\ Len(todos) < Len(failureFreeScan(RootPath))
    /\ StartsWithAt(todos[1].file, 1, SrcPath \o <<"/">>)

\* -------------------------------------------------------------------- C16
\* the title holds one of the three words, in any case
titleHasMarker(issue) ==
    \E kw \in {TODO, FIXME, HACK} : includesCI(issue.title, kw)

\* the disjunction of the raw-text step: the body holds the file path, or the
\* body holds the raw text, or the title holds one of the words
meetsDisjunction(todo, issue) ==
    \/ includes(issue.body, todo.file)
    \/ includes(issue.body, trim(todo.content))
    \/ titleHasMarker(issue)

\* C16: whenever the raw-text search returns an issue that meets the
\* disjunction (the title alone is enough, whatever the body, an empty one
\* included), the finding is linked at that step; when it returns none, the
\* finding is not linked at that step.
C16_TitleAloneSuffices ==
    \A k \in 1..Len(replies) :
        (replies[k].by = "content" /\ ~replies[k].failed) =>
            LET todo == todos[replies[k].todo]
                met == \E m \in 1..Len(replies[k].numbers) :
                           meetsDisjunction(todo, issueNumbered(replies[k].numbers[m]))
                more == \E j \in 1..Len(replies) : j # k /\ replies[j].todo = replies[k].todo
            IN IF met THEN linkedNotCreated(replies[k].todo) /\ ~more
               ELSE more \/ pc = "await_search2"

\* -------------------------------------------------------------------- C17
\* the steps requested for the finding, in the order of the request log
stepsOf(index) ==
    Flatten([k \in 1..Len(requests) |->
                IF requests[k].kind = "search" /\ requests[k].todo = index
                THEN <<requests[k].by>>
                ELSE IF requests[k].kind = "create" /\ requests[k].todo = index
                THEN <<"create">>
                ELSE <<>>])

\* the answers (or failures) of a step of the finding
answersOf(index, by) ==
    {k \in 1..Len(replies) : replies[k].todo = index /\ replies[k].by = by}

\* the raw-text step of the finding produced an accepted issue
acceptedByText(index) ==
    \E k \in answersOf(index, "content") :
        \E m \in 1..Len(replies[k].numbers) :
            acceptsByContent(todos[index], issueNumbered(replies[k].numbers[m]))

\* the file-path step of the finding produced an accepted issue
acceptedByPath(index) ==
    \E k \in answersOf(index, "file") :
        \E m \in 1..Len(replies[k].numbers) :
            acceptsByFile(todos[index], issueNumbered(replies[k].numbers[m]))

\* the raw-text search of the finding failed
textSearchFailed(index) == \E k \in answersOf(index, "content") : replies[k].failed

\* both steps have been tried for the finding and neither accepted an issue
bothTriedNoneAccepted(index) ==
    /\ answersOf(index, "content") # {}
    /\ answersOf(index, "file") # {}
    /\ ~acceptedByText(index)
    /\ ~acceptedByPath(index)

\* the raw-text search comes first, and the file-path search is requested
\* exactly when the raw-text search has answered without an accepted issue
searchOrderKept(index) ==
    /\ stepsOf(index) \in {<<>>, <<"content">>, <<"content", "file">>,
                          <<"content", "create">>, <<"content", "file", "create">>}
    /\ (\E k \in requestsOf("search") : requests[k].todo = index /\ requests[k].by = "file")
          <=> /\ answersOf(index, "content") # {}
              /\ ~textSearchFailed(index)
              /\ ~acceptedByText(index)

\* the findings a request has been made for
reconciled == {requests[k].todo : k \in requestsOf("search") \cup requestsOf("create")}

\* the findings a create request has been made for
createRequested == {requests[k].todo : k \in requestsOf("create")}

\* C17 as stated: for each finding the raw-text search comes first, the
\* file-path search is requested exactly when the raw-text step accepted no
\* issue, and a create request is made only after both steps have been tried
\* and neither accepted an issue.
C17_CreateOnlyAfterBothSteps ==
    /\ \A i \in reconciled : searchOrderKept(i)
    /\ \A i \in createRequested : bothTriedNoneAccepted(i)

\* C17, amended: the same, but a create request is made after both steps
\* have been tried with no accepted issue or right after the raw-text search
\* has failed, in which case the file-path step is not tried.
C17_CreateAfterBothStepsOrFailure ==
    /\ \A i \in reconciled : searchOrderKept(i)
    /\ \A i \in createRequested :
          IF textSearchFailed(i)
          THEN stepsOf(i) = <<"content", "create">>
          ELSE bothTriedNoneAccepted(i) /\ stepsOf(i) = <<"content", "file", "create">>

\* a reconciler run is over with a finding linked at the raw-text step, a
\* finding created after both steps, and a finding created right after its
\* raw-text search failed
C17_Witness ==
    /\ ReconcilerFinished
    /\ \E a, b, c \in 1..Len(todos) :
          /\ stepsOf(a) = <<"content">> /\ fate[a] = "linked"
          /\ stepsOf(b) = <<"content", "file", "create">> /\ bothTriedNoneAccepted(b)
          /\ stepsOf(c) = <<"content", "create">> /\ textSearchFailed(c)

\* -------------------------------------------------------------------- C18
\* run() is suspended on a collaborator request
Suspended == pc \in {"await_root", "await_dir", "await_file", "await_search1",
                     "await_search2", "await_create"}

\* the request is one of the reconciler
ofReconciler(request) == request.kind \in {"search", "create"}

\* C18: a request is outstanding exactly while run() is suspended on it, and
\* it is the last one issued, so that no request is issued while another is
\* outstanding; in the order of issue no scan request comes after a
\* reconciler request, the reconciler requests go by finding in sequence
\* order, a request for a finding is issued only when all the findings before
\* it are done with, and reconciler requests exist only once the scan is over.
C18_OneRequestAtATime ==
    /\ Suspended <=> pending.kind # "none"
    /\ Suspended =>
          /\ requests # <<>>
          /\ \A f \in DOMAIN requests[Len(requests)] : requests[Len(requests)][f] = pending[f]
    /\ \A k \in 1..(Len(requests) - 1) :
          ofReconciler(requests[k]) =>
              /\ ofReconciler(requests[k + 1])
              /\ requests[k].todo <= requests[k + 1].todo
    /\ \A k \in 1..Len(requests) :
          ofReconciler(requests[k]) =>
              /\ stack = <<>>
              /\ "todo-count" \in DOMAIN outputs
              /\ requests[k].todo <= Len(fate) + 1
              /\ requests[k].todo = Len(fate) + 1 => cursor = requests[k].todo

\* a run is over that has issued requests of all four kinds, for several
\* findings
C18_Witness ==
    /\ ThresholdStepDone
    /\ \A kind \in {"list", "content", "search", "create"} : requestsOf(kind) # {}
    /\ Len(fate) >= 3

\* -------------------------------------------------------------------- C19
\* the files of the snapshot below a directory in depth-first pre-order: the
\* entries in listing order, a directory by the files below it
RECURSIVE preorder(_)
preorder(dirPath) ==
    LET contents == listDirectory(dirPath)
    IN Flatten([k \in 1..Len(contents) |->
                   IF contents[k].type = "dir"
                   THEN preorder(contents[k].path)
                   ELSE <<contents[k].path>>])

\* the position of the file in the walk
walkRank(path) == CHOOSE i \in 1..Len(preorder(RootPath)) : preorder(RootPath)[i] = path

\* the lines of the file
linesOf(path) == split(getFileContent(path).content, "\n")

\* C19: the findings are in the order of the walk: each finding is followed
\* by a finding at a later line of the same file or by a finding of a file
\* later in depth-first pre-order, so the findings of a file and of a subtree
\* are contiguous; the line numbers count the lines of the file from 1.
C19_DepthFirstOrder ==
    pc = "aggregate" =>
        /\ \A i \in 1..(Len(todos) - 1) :
              IF todos[i].file = todos[i + 1].file
              THEN todos[i].line < todos[i + 1].line
              ELSE walkRank(todos[i].file) < walkRank(todos[i + 1].file)
        /\ \A i \in 1..Len(todos) :
              /\ todos[i].line \in 1..Len(linesOf(todos[i].file))
              /\ todos[i].content = trim(linesOf(todos[i].file)[todos[i].line])

\* a scan is over with findings of a file of a directory, then of a file of
\* a directory below it, then of a file listed after the directory in the
\* root, and with two findings in one file
C19_Witness ==
    /\ pc = "aggregate"
    /\ \E i, j, k \in 1..Len(todos) :
          /\ i < j /\ j < k
          /\ todos[i].file \in {e.path : e \in Range(listDirectory(SrcPath))}
          /\ todos[j].file \in {e.path : e \in Range(listDirectory(LibPath))}
          /\ todos[k].file \in {e.path : e \in Range(listDirectory(RootPath))}
    /\ \E i \in 1..(Len(todos) - 1) : todos[i].file = todos[i + 1].file

\* -------------------------------------------------------------------- C20
\* the comment openers a raw text can begin with
openers == { <<"/","/">>, <<"/","*">>, <<"#">>, <<"<","!","-","-">> }

\* the title without its ellipsis
shownPart(title) ==
    IF endsWithEllipsis(title) THEN SubSeq(title, 1, Len(title) - 3) ELSE title

\* C20: the title of every issue whose creation is requested is made of the
\* cleaned raw text: the cleaned text as it is when it begins with TODO:,
\* FIXME: or HACK: in any case, and 'TODO: ' followed by the cleaned text
\* otherwise (whole, or cut and followed by the ellipsis); it never has a
\* comment opener right at its start or after the prefix, nor a marker prefix
\* after the prefix.
C20_TitleFromCleanedText ==
    \A k \in requestsOf("create") :
        LET title == requests[k].title
            cleaned == cleanContentOf(todos[requests[k].todo].content)
            text == IF hasMarkerPrefix(cleaned) THEN cleaned ELSE TodoPrefix \o cleaned
        IN /\ StartsWithAt(text, 1, shownPart(title))
           /\ ~endsWithEllipsis(title) => title = text
           /\ \A o \in openers :
                 /\ ~StartsWithAt(title, 1, o)
                 /\ ~StartsWithAt(title, 1, TodoPrefix \o o)
           /\ ~hasMarkerPrefix(From(title, Len(TodoPrefix) + 1)) \/ ~StartsWithAt(title, 1, TodoPrefix)

\* -------------------------------------------------------------------- C21
\* the author of the pull request, as the context gives it:
\* payload.pull_request.user.login ("" when the payload has none)
authorOf(ctx) == IF ctx.hasPullRequest THEN ctx.pullRequestLogin ELSE ""

\* C21: every create request carries exactly one assignee, the login of the
\* author of the pull request, when the context gives that author, and no
\* assignee when it does not; no other identity is assigned.
C21_AssigneeIsPullRequestAuthor ==
    \A k \in requestsOf("create") :
        IF authorOf(context) # ""
        THEN requests[k].assignees = << authorOf(context) >>
        ELSE requests[k].assignees = <<>>
====
